---- MODULE Spec2Model ----
(***************************************************************************)
(* Model of darwinian_evolution/genotype.py: the composite Genotype (body, *)
(* brain, random_seed), the variation operators random / mutate /          *)
(* crossover, and GenotypeSerializer (create_tables, to_database,          *)
(* from_database) over the DbGenotype table and the three component        *)
(* stores (CppnwinGenotypeSerializer, ArrayGenotypeSerializer,             *)
(* FloatSerializer).                                                       *)
(***************************************************************************)
EXTENDS Integers, Sequences, FiniteSets, TLC

(***************************************************************************)
(* Bounds of the model.                                                    *)
(***************************************************************************)
MaxPop    == 3      \* genotypes the evolutionary loop holds
MaxRows   == 2      \* rows of the genotype table
MaxBatch  == 2      \* length of the list given to to_database
MaxIds    == 3      \* length of the list given to from_database
MaxPre    == 1      \* rows other users of the brain and scalar stores wrote before

VARIABLES
    pop,          \* genotypes produced so far by random / mutate / crossover
    drawn,        \* the seeds drawn by random()
    lastOp,       \* the last variation call: operator, arguments, delegated flag
    created,      \* the genotype table exists
    dbBody,       \* rows of the body store (id = position)
    dbBrain,      \* rows of the brain store
    dbFloat,      \* rows of the scalar store
    dbGenotype,   \* rows of the genotype table
    committed,    \* number of rows of each table the last commit made durable
    pc,           \* position of the caller of the serializer
    objects,      \* argument of the to_database call
    body_ids,     \* ids the body adapter returned in this call
    brain_ids,    \* ids the brain adapter returned in this call
    seed_ids,     \* ids the scalar store returned in this call
    to_ids,       \* list the last to_database call returned
    issued,       \* every id to_database ever returned, in order
    fromCall      \* the from_database call that just returned, and its outcome

variationVars == <<pop, drawn, lastOp>>
toVars == <<pc, objects, body_ids, brain_ids, seed_ids, to_ids, issued>>
dbVars == <<created, dbBody, dbBrain, dbFloat, dbGenotype, committed>>
persistenceVars == <<dbVars, toVars, fromCall>>
vars == <<variationVars, persistenceVars>>

(***************************************************************************)
(* Values.  The sub-genotypes are opaque handles: the body and brain       *)
(* encoders are black boxes that return some handle.                       *)
(***************************************************************************)
Bodies == {"cppn_a", "cppn_b"}
Brains == {"array_a", "array_b"}

\* @dataclass Genotype
Genotype(body, brain, random_seed) ==
    [body |-> body, brain |-> brain, random_seed |-> random_seed]

\* Random.randint(a, b): an integer of the inclusive range [a, b]; the
\* model draws the two ends and the middle.
RandInt(a, b) == {a, (a + b) \div 2, b}

\* _multineat_rng_from_random: a multineat RNG seeded with rng.randint(0,
\* 2**31); the body encoder alone reads it, so the model keeps only which
\* end of the range the seed came from.
multineat_rng_from_random == {"rng_seeded_low", "rng_seeded_high"}

Min(a, b) == IF a <= b THEN a ELSE b

Range(s) == {s[i] : i \in 1..Len(s)}

IsInjective(s) == \A i, j \in 1..Len(s) : s[i] = s[j] => i = j

\* the lists of length lo..hi over S
ListsOf(S, lo, hi) == UNION {[1..n -> S] : n \in lo..hi}

(***************************************************************************)
(* Encoders (black boxes): each call returns some handle.                  *)
(***************************************************************************)
\* body_random(innov_db, multineat_rng, params, TANH, num_initial_mutations)
body_random(multineat_rng) == Bodies

\* mutate_v1(body, params, innov_db, multineat_rng)
mutate_v1(body, multineat_rng) == Bodies

\* crossover_v1(body1, body2, params, multineat_rng, False, False)
crossover_v1(body1, body2, multineat_rng, mate_average, interspecies) == Bodies

\* random_array_genotype(robot_grid_size, rng)
random_array_genotype == Brains

\* brain_mutation(brain, 0, 0.5, 0.8)
brain_mutation(brain) == Brains

\* brain_crossover(brain1, brain2, 0.5, first_best)
brain_crossover(brain1, brain2, first_best) == Brains

(***************************************************************************)
(* Variation engine.                                                       *)
(***************************************************************************)
NoGenotype == Genotype("", "", 0)

NoOp == [op |-> "none", i |-> 0, j |-> 0, first_best |-> FALSE,
         brain_flag |-> FALSE, parent1 |-> NoGenotype, parent2 |-> NoGenotype]

\* random(): the genotypes one call can return
random_out_zero ==
    {Genotype(body, brain, random_seed) :
        body \in UNION {body_random(r) : r \in multineat_rng_from_random},
        brain \in random_array_genotype,
        random_seed \in RandInt(0, 10000)}

random_out ==
    {Genotype(body, brain, random_seed) :
        body \in UNION {body_random(r) : r \in multineat_rng_from_random},
        brain \in random_array_genotype,
        random_seed \in RandInt(1, 10000)}

\* mutate(genotype, ...): the genotypes one call can return
mutate_out_redraw(genotype) ==
    {Genotype(body, brain, random_seed) :
        body \in UNION {mutate_v1(genotype.body, r) : r \in multineat_rng_from_random},
        brain \in brain_mutation(genotype.brain),
        random_seed \in RandInt(1, 10000)}

mutate_out(genotype) ==
    {Genotype(body, brain, genotype.random_seed) :
        body \in UNION {mutate_v1(genotype.body, r) : r \in multineat_rng_from_random},
        brain \in brain_mutation(genotype.brain)}

\* crossover(parent1, parent2, rng, first_best): the seed of the child
crossover_seed_first(parent1, parent2, first_best) == parent1.random_seed

crossover_seed(parent1, parent2, first_best) ==
    IF first_best THEN parent1.random_seed ELSE parent2.random_seed

\* crossover(parent1, parent2, rng, first_best): the genotypes one call can return
crossover_out(parent1, parent2, first_best) ==
    {Genotype(body, brain, crossover_seed(parent1, parent2, first_best)) :
        body \in UNION {crossover_v1(parent1.body, parent2.body, r, FALSE, FALSE) :
                           r \in multineat_rng_from_random},
        brain \in brain_crossover(parent1.brain, parent2.brain, first_best)}

\* a call of random(innov_db_body, rng, num_initial_mutations, robot_grid_size)
random ==
    /\ Len(pop) < MaxPop
    /\ \E g \in random_out :
          /\ pop' = Append(pop, g)
          /\ drawn' = drawn \cup {g.random_seed}
    /\ lastOp' = [NoOp EXCEPT !.op = "random"]
    /\ UNCHANGED persistenceVars

\* a call of mutate(pop[i], innov_db_body, innov_db_brain, rng)
mutate ==
    /\ Len(pop) < MaxPop
    /\ \E i \in 1..Len(pop) :
          /\ \E g \in mutate_out(pop[i]) : pop' = Append(pop, g)
          /\ lastOp' = [NoOp EXCEPT !.op = "mutate", !.i = i, !.parent1 = pop[i]]
    /\ UNCHANGED <<drawn, persistenceVars>>

\* a call of crossover(pop[i], pop[j], rng, first_best)
crossover ==
    /\ Len(pop) < MaxPop
    /\ \E i, j \in 1..Len(pop), first_best \in BOOLEAN :
          /\ \E g \in crossover_out(pop[i], pop[j], first_best) :
                pop' = Append(pop, g)
          /\ lastOp' = [op |-> "crossover", i |-> i, j |-> j,
                        first_best |-> first_best, brain_flag |-> first_best,
                        parent1 |-> pop[i], parent2 |-> pop[j]]
    /\ UNCHANGED <<drawn, persistenceVars>>

(***************************************************************************)
(* Component stores.  CppnwinGenotypeSerializer, ArrayGenotypeSerializer   *)
(* and FloatSerializer share one contract: to_database appends the values  *)
(* and returns their ids in order, from_database returns the values of the *)
(* ids in order.  A table is the sequence of its rows, the id of a row its *)
(* position (autoincrement, no row is ever deleted).                       *)
(***************************************************************************)
\* the Float column of FloatSerializer: the value comes back as a float
PyFloat(n) == [float |-> n]

\* Python's float == int: by numeric value
py_eq(x, n) == x.float = n

store_to_database(table, values) ==
    [table |-> table \o values,
     ids   |-> [k \in 1..Len(values) |-> Len(table) + k]]

store_from_database(table, idl) ==
    IF \A k \in 1..Len(idl) : idl[k] \in 1..Len(table)
    THEN [ok |-> TRUE, values |-> [k \in 1..Len(idl) |-> table[idl[k]]]]
    ELSE [ok |-> FALSE, values |-> <<>>]

\* FloatSerializer.to_database: the values are stored in a Float column
float_to_database(table, values) ==
    store_to_database(table, [k \in 1..Len(values) |-> PyFloat(values[k])])

TableSizes ==
    [genotype |-> Len(dbGenotype), body |-> Len(dbBody),
     brain |-> Len(dbBrain), float |-> Len(dbFloat)]

(***************************************************************************)
(* GenotypeSerializer.                                                     *)
(***************************************************************************)
\* the genotypes the model hands to to_database: three that random() can
\* return, any two of which differ in body, brain or seed
Genotypes ==
    {Genotype("cppn_a", "array_a", 1),
     Genotype("cppn_b", "array_a", 5000),
     Genotype("cppn_b", "array_b", 10000)}

\* create_tables: creates the tables; "This function commits."
create_tables ==
    /\ pc = "idle"
    /\ created' = TRUE
    /\ committed' = TableSizes
    /\ UNCHANGED <<dbBody, dbBrain, dbFloat, dbGenotype, toVars, fromCall,
                   variationVars>>

\* the caller commits the session
commit ==
    /\ pc = "idle"
    /\ committed # TableSizes
    /\ committed' = TableSizes
    /\ UNCHANGED <<created, dbBody, dbBrain, dbFloat, dbGenotype, toVars,
                   fromCall, variationVars>>

NoCall == [called |-> FALSE, ids |-> <<>>, status |-> "none", genotypes |-> <<>>]

\* to_database, up to the first await: the bodies go to the body store
to_database_bodies ==
    /\ pc = "idle"
    /\ created
    /\ \E objs \in ListsOf(Genotypes, 0, MaxBatch) :
          /\ Len(dbGenotype) + Len(objs) <= MaxRows
          /\ objects' = objs
          /\ LET w == store_to_database(dbBody, [k \in 1..Len(objs) |-> objs[k].body])
             IN  /\ dbBody' = w.table
                 /\ body_ids' = w.ids
    /\ brain_ids' = <<>>
    /\ seed_ids' = <<>>
    /\ to_ids' = <<>>
    /\ pc' = "bodies"
    /\ UNCHANGED <<created, dbBrain, dbFloat, dbGenotype, committed, issued,
                   fromCall, variationVars>>

\* to_database, second await: the brains go to the brain store
to_database_brains ==
    /\ pc = "bodies"
    /\ LET w == store_to_database(dbBrain,
                    [k \in 1..Len(objects) |-> objects[k].brain])
       IN  /\ dbBrain' = w.table
           /\ brain_ids' = w.ids
    /\ pc' = "brains"
    /\ UNCHANGED <<created, dbBody, dbFloat, dbGenotype, committed, objects,
                   body_ids, seed_ids, to_ids, issued, fromCall, variationVars>>

\* to_database, third await: the seeds go to the scalar store
to_database_seeds ==
    /\ pc = "brains"
    /\ LET w == float_to_database(dbFloat,
                    [k \in 1..Len(objects) |-> objects[k].random_seed])
       IN  /\ dbFloat' = w.table
           /\ seed_ids' = w.ids
    /\ pc' = "seeds"
    /\ UNCHANGED <<created, dbBody, dbBrain, dbGenotype, committed, objects,
                   body_ids, brain_ids, to_ids, issued, fromCall, variationVars>>

\* DbGenotype(body_id=..., brain_id=..., seed_id=...): the id is None (the
\* record has no id field) until the flush
DbGenotype(body_id, brain_id, seed_id) ==
    [body_id |-> body_id, brain_id |-> brain_id, seed_id |-> seed_id]

\* [DbGenotype(...) for body_id, brain_id, seed_id in zip(...)]
dbgenotypes_swapped(b_ids, a_ids, s_ids) ==
    [k \in 1..Min(Len(b_ids), Min(Len(a_ids), Len(s_ids))) |->
        DbGenotype(b_ids[k], s_ids[k], a_ids[k])]

dbgenotypes_misaligned(b_ids, a_ids, s_ids) ==
    [k \in 1..Min(Len(b_ids), Min(Len(a_ids), Len(s_ids))) |->
        DbGenotype(b_ids[k], a_ids[k], s_ids[Len(s_ids) + 1 - k])]

dbgenotypes(b_ids, a_ids, s_ids) ==
    [k \in 1..Min(Len(b_ids), Min(Len(a_ids), Len(s_ids))) |->
        DbGenotype(b_ids[k], a_ids[k], s_ids[k])]

\* the primary key the table gives the k-th row of a flush
autoincrement_restart(table, k) == k

autoincrement(table, k) == Len(table) + k

\* session.flush(): every pending record gets its primary key
session_flush(table, pending) ==
    [k \in 1..Len(pending) |-> pending[k] @@ [id |-> autoincrement(table, k)]]

IdIsNotNone(r) == "id" \in DOMAIN r

\* [dbfitness.id for dbfitness in dbgenotypes if dbfitness.id is not None]
ids_not_none(flushed) ==
    LET kept == SelectSeq(flushed, IdIsNotNone)
    IN  [k \in 1..Len(kept) |-> kept[k].id]

\* to_database from the zip to the return; the session ends with
\* `newCommitted` rows durable
add_all_flush_return(newCommitted) ==
    /\ pc = "seeds"
    /\ LET flushed == session_flush(dbGenotype,
                          dbgenotypes(body_ids, brain_ids, seed_ids))
           idl == ids_not_none(flushed)
       IN  /\ dbGenotype' = dbGenotype \o flushed
           /\ IF Len(idl) = Len(objects)
              THEN /\ to_ids' = idl
                   /\ issued' = issued \o idl
                   /\ pc' = "idle"
              ELSE /\ UNCHANGED <<to_ids, issued>>
                   /\ pc' = "AssertionError"
    /\ UNCHANGED <<created, dbBody, dbBrain, dbFloat, objects, body_ids,
                   brain_ids, seed_ids, fromCall, variationVars>>
    /\ committed' = newCommitted

to_database_flush_commits == add_all_flush_return(TableSizes')

\* to_database, fourth await: add_all, flush, return; no commit
to_database_flush == add_all_flush_return(committed)

\* select(DbGenotype).filter(DbGenotype.id.in_(ids)): the matching rows, in
\* whatever order the database returns them
select_rows(idl) ==
    LET match == {k \in 1..Len(dbGenotype) : dbGenotype[k].id \in Range(idl)}
    IN  {[k \in 1..Cardinality(match) |-> dbGenotype[f[k]]] :
            f \in {h \in [1..Cardinality(match) -> match] : IsInjective(h)}}

\* if len(rows) != len(ids): raise IncompatibleError()
rows_mismatch_none_found(rows, idl) == Len(rows) = 0 /\ Len(idl) # 0

rows_mismatch(rows, idl) == Len(rows) # Len(idl)

\* id_map = {t.id: t for t in rows}
id_map(rows) ==
    [k \in {rows[n].id : n \in 1..Len(rows)} |->
        rows[CHOOSE n \in 1..Len(rows) :
                /\ rows[n].id = k
                /\ \A m \in 1..Len(rows) : rows[m].id = k => m <= n]]

\* [id_map[id].<col> for id in ids]
foreign_ids_in_row_order(rows, idl, col) ==
    [n \in 1..Len(idl) |-> rows[Min(n, Len(rows))][col]]

foreign_ids(rows, idl, col) ==
    [n \in 1..Len(idl) |-> id_map(rows)[idl[n]][col]]

Raised(error) == [status |-> error, genotypes |-> <<>>]

\* from_database after the query returned `rows`
from_database(rows, idl) ==
    IF rows_mismatch(rows, idl) THEN Raised("IncompatibleError")
    ELSE IF \E n \in 1..Len(idl) : idl[n] \notin DOMAIN id_map(rows)
    THEN Raised("KeyError")
    ELSE LET body_genotypes ==
                 store_from_database(dbBody, foreign_ids(rows, idl, "body_id"))
             brain_genotypes ==
                 store_from_database(dbBrain, foreign_ids(rows, idl, "brain_id"))
             random_seeds ==
                 store_from_database(dbFloat, foreign_ids(rows, idl, "seed_id"))
         IN  IF ~(body_genotypes.ok /\ brain_genotypes.ok /\ random_seeds.ok)
             THEN Raised("IncompatibleError")
             ELSE [status |-> "ok",
                   genotypes |->
                       [n \in 1..Min(Len(body_genotypes.values),
                                     Min(Len(brain_genotypes.values),
                                         Len(random_seeds.values))) |->
                           Genotype(body_genotypes.values[n],
                                    brain_genotypes.values[n],
                                    random_seeds.values[n])]]

\* a call of from_database(session, ids), up to its return
from_database_call ==
    /\ pc = "idle"
    /\ created
    /\ \E idl \in ListsOf(1..(Len(dbGenotype) + 1), 0, MaxIds) :
          \E rows \in select_rows(idl) :
             fromCall' = [called |-> TRUE, ids |-> idl] @@ from_database(rows, idl)
    /\ pc' = "returned"
    /\ UNCHANGED <<dbVars, objects, body_ids, brain_ids, seed_ids, to_ids,
                   issued, variationVars>>

\* the caller goes on with the list from_database returned, or with the
\* error it raised
from_database_done ==
    /\ pc = "returned"
    /\ pc' = "idle"
    /\ fromCall' = NoCall
    /\ UNCHANGED <<dbVars, objects, body_ids, brain_ids, seed_ids, to_ids,
                   issued, variationVars>>

InitVariation ==
    /\ pop = <<>>
    /\ drawn = {}
    /\ lastOp = NoOp

InitDb ==
    /\ created = FALSE
    /\ dbBody = <<>>
    /\ dbBrain \in {[k \in 1..n |-> "array_a"] : n \in 0..MaxPre}
    /\ dbFloat \in {[k \in 1..n |-> PyFloat(0)] : n \in 0..MaxPre}
    /\ dbGenotype = <<>>
    /\ committed = TableSizes
    /\ pc = "idle"
    /\ objects = <<>>
    /\ body_ids = <<>>
    /\ brain_ids = <<>>
    /\ seed_ids = <<>>
    /\ to_ids = <<>>
    /\ issued = <<>>
    /\ fromCall = NoCall

Init == InitVariation /\ InitDb

NextVariation == random \/ mutate \/ crossover

SpecVariation == Init /\ [][NextVariation]_vars

NextPersistence ==
    \/ create_tables
    \/ commit
    \/ to_database_bodies
    \/ to_database_brains
    \/ to_database_seeds
    \/ to_database_flush
    \/ from_database_call
    \/ from_database_done

SpecPersistence == Init /\ [][NextPersistence]_vars

(***************************************************************************)
(* Claims about the variation engine (checked under SpecVariation).        *)
(***************************************************************************)
child == pop[Len(pop)]

\* C8: mutate returns a genotype whose random_seed equals that of its
\* argument g, and g itself (body, brain, random_seed) is as it was before
\* the call.
C8_MutateKeepsSeed ==
    lastOp.op = "mutate" =>
        /\ child.random_seed = lastOp.parent1.random_seed
        /\ pop[lastOp.i] = lastOp.parent1
        /\ lastOp.i < Len(pop)

\* a mutation whose body and brain both differ from the argument's
C8_Witness ==
    /\ lastOp.op = "mutate"
    /\ child.body # lastOp.parent1.body
    /\ child.brain # lastOp.parent1.brain
    /\ child.random_seed = 10000

\* C9: crossover(p1, p2, rng, true) has p1's seed, crossover(p1, p2, rng,
\* false) has p2's seed, the seed is never blended or redrawn, and the flag
\* given to the brain crossover is first_best itself.
C9_CrossoverSeedLineage ==
    lastOp.op = "crossover" =>
        /\ lastOp.first_best => child.random_seed = lastOp.parent1.random_seed
        /\ ~lastOp.first_best => child.random_seed = lastOp.parent2.random_seed
        /\ lastOp.brain_flag = lastOp.first_best

\* a crossover of parents with different seeds that prefers the second
C9_Witness ==
    /\ lastOp.op = "crossover"
    /\ ~lastOp.first_best
    /\ lastOp.parent1.random_seed # lastOp.parent2.random_seed
    /\ child.random_seed = lastOp.parent2.random_seed

\* C10: every genotype produced by any sequence of random, mutate and
\* crossover calls has 1 <= random_seed <= 10000, and its seed is one that
\* an earlier random call drew.
C10_SeedRangeOverLineages ==
    \A k \in 1..Len(pop) :
        /\ 1 <= pop[k].random_seed
        /\ pop[k].random_seed <= 10000
        /\ pop[k].random_seed \in drawn

\* a grandchild: a crossover one of whose parents is itself a mutant
C10_Witness ==
    /\ Len(pop) = 3
    /\ lastOp.op = "crossover"
    /\ lastOp.i = 2
    /\ lastOp.j = 1
    /\ pop[2].body # pop[1].body
    /\ pop[2].random_seed = pop[1].random_seed
    /\ child.random_seed = 1

(***************************************************************************)
(* Claims about the persistence adapter (checked under SpecPersistence).   *)
(***************************************************************************)
\* the last to_database call has returned its list
ToReturned == pc \in {"idle", "returned"} /\ Len(to_ids) > 0

\* the row of the genotype table with primary key id
RowOf(id) == dbGenotype[CHOOSE k \in 1..Len(dbGenotype) : dbGenotype[k].id = id]

IsStored(id) == \E k \in 1..Len(dbGenotype) : dbGenotype[k].id = id

\* the genotype the row with primary key id refers to
StoredGenotype(id) ==
    Genotype(dbBody[RowOf(id).body_id], dbBrain[RowOf(id).brain_id],
             dbFloat[RowOf(id).seed_id])

\* the records the last to_database call added
Added == SubSeq(dbGenotype, Len(dbGenotype) - Len(to_ids) + 1, Len(dbGenotype))

\* C1: from_database of the list to_database(L) returned, for a non-empty
\* L, returns Len(L) genotypes, the i-th with the body, the brain and the
\* seed (as a number) of L[i].
C1_RoundTrip ==
    (ToReturned /\ fromCall.called /\ fromCall.ids = to_ids) =>
        /\ fromCall.status = "ok"
        /\ Len(fromCall.genotypes) = Len(objects)
        /\ \A n \in 1..Len(objects) :
              /\ fromCall.genotypes[n].body = objects[n].body
              /\ fromCall.genotypes[n].brain = objects[n].brain
              /\ py_eq(fromCall.genotypes[n].random_seed, objects[n].random_seed)

\* the round trip of a batch of two genotypes that differ in body, brain and
\* seed, whose seeds are not stored under the ids of their records
C1_Witness ==
    /\ ToReturned
    /\ fromCall.called
    /\ fromCall.ids = to_ids
    /\ to_ids = <<1, 2>>
    /\ seed_ids = <<2, 3>>
    /\ objects[1].random_seed # objects[2].random_seed
    /\ objects[1].body # objects[2].body
    /\ objects[1].brain # objects[2].brain
    /\ fromCall.status = "ok"

\* C2: from_database([x, y, x]) with x and y stored succeeds and returns
\* three genotypes, the one stored under x at positions 0 and 2 and the one
\* stored under y at position 1.
C2_DuplicateIdsResolve ==
    (/\ fromCall.called
     /\ Len(fromCall.ids) = 3
     /\ fromCall.ids[1] = fromCall.ids[3]
     /\ fromCall.ids[1] # fromCall.ids[2]
     /\ \A n \in 1..3 : IsStored(fromCall.ids[n])) =>
        /\ fromCall.status = "ok"
        /\ Len(fromCall.genotypes) = 3
        /\ \A n \in 1..3 : fromCall.genotypes[n] = StoredGenotype(fromCall.ids[n])

\* C3: from_database of a list with at least one id that has no record
\* raises IncompatibleError and returns no list.
C3_MissingIdRaises ==
    (fromCall.called /\ \E n \in 1..Len(fromCall.ids) : ~IsStored(fromCall.ids[n])) =>
        /\ fromCall.status = "IncompatibleError"
        /\ fromCall.genotypes = <<>>

\* two stored ids, one of them twice, and an id that was never assigned
C3_Witness ==
    /\ fromCall.called
    /\ Len(fromCall.ids) = 3
    /\ IsStored(fromCall.ids[1])
    /\ fromCall.ids[2] = fromCall.ids[1]
    /\ ~IsStored(fromCall.ids[3])
    /\ Len(dbGenotype) = 2
    /\ fromCall.status = "IncompatibleError"

\* C4: for distinct stored ids in any order, from_database returns one
\* genotype per id, the i-th built from the body, brain and seed the record
\* with primary key ids[i] refers to.
C4_FollowsOrderOfIds ==
    (/\ fromCall.called
     /\ IsInjective(fromCall.ids)
     /\ \A n \in 1..Len(fromCall.ids) : IsStored(fromCall.ids[n])) =>
        /\ fromCall.status = "ok"
        /\ Len(fromCall.genotypes) = Len(fromCall.ids)
        /\ \A n \in 1..Len(fromCall.ids) :
              fromCall.genotypes[n] = StoredGenotype(fromCall.ids[n])

\* the ids in the reverse of the storage order, of two different genotypes
C4_Witness ==
    /\ fromCall.called
    /\ fromCall.ids = <<2, 1>>
    /\ fromCall.status = "ok"
    /\ StoredGenotype(1) # StoredGenotype(2)
    /\ fromCall.genotypes[1] = StoredGenotype(2)

\* C5: to_database returns Len(L) pairwise distinct positive integers, the
\* i-th the primary key of the i-th record it added, and over all calls no
\* id is returned twice.
C5_DistinctPositiveIds ==
    /\ pc \in {"idle", "returned"} =>
          /\ Len(to_ids) = Len(objects)
          /\ IsInjective(to_ids)
          /\ \A n \in 1..Len(to_ids) :
                /\ to_ids[n] \in Nat \ {0}
                /\ Added[n].id = to_ids[n]
    /\ IsInjective(issued)
    /\ pc # "AssertionError"

\* a second call has returned
C5_Witness ==
    /\ pc = "idle"
    /\ to_ids = <<2>>
    /\ issued = <<1, 2>>

\* every record a to_database call added carries the ids the three stores
\* returned in that call at its index, and those rows hold the genotype's
\* body, brain and seed
C6_RecordsCarryReturnedIds ==
    ToReturned =>
        \A n \in 1..Len(objects) :
            /\ Added[n].body_id = body_ids[n]
            /\ Added[n].brain_id = brain_ids[n]
            /\ Added[n].seed_id = seed_ids[n]
            /\ dbBody[body_ids[n]] = objects[n].body
            /\ dbBrain[brain_ids[n]] = objects[n].brain
            /\ py_eq(dbFloat[seed_ids[n]], objects[n].random_seed)

\* C6: referential integrity of a batch write: the records carry the ids
\* the body adapter, the brain adapter and the scalar store returned in the
\* same call at the same index, and no record is added before all three
\* batch writes have returned.
C6_ReferentialIntegrity ==
    /\ []C6_RecordsCarryReturnedIds
    /\ [][dbGenotype' # dbGenotype =>
            /\ pc = "seeds"
            /\ Len(body_ids) = Len(objects)
            /\ Len(brain_ids) = Len(objects)
            /\ Len(seed_ids) = Len(objects)]_vars

\* a batch of two whose seed ids differ from its brain ids and body ids
C6_Witness ==
    /\ ToReturned
    /\ Len(objects) = 2
    /\ Added[2].seed_id # Added[2].brain_id
    /\ Added[2].brain_id # Added[2].body_id
    /\ Added[2].body_id = 2

\* C7: no step of to_database commits, and when it returns the rows it
\* wrote are not among the committed ones.
C7_ToDatabaseNeverCommits ==
    [][(pc \in {"bodies", "brains", "seeds"} \/ pc' \in {"bodies", "brains", "seeds"}) =>
          /\ committed' = committed
          /\ pc' = "idle" =>
                committed'.genotype <= Len(dbGenotype') - Len(to_ids')]_vars

\* a batch was committed by the caller, the next one is written and not yet
\* committed
C7_Witness ==
    /\ pc = "idle"
    /\ Len(to_ids) = 1
    /\ committed.genotype = 1
    /\ Len(dbGenotype) = 2
====
